---------------------------- MODULE Spec2Model ----------------------------
(***************************************************************************)
(* A model of the Wormhole data-provider service                           *)
(* (packages/wormhole-plugin/src/service.ts): the RateLimiter, the         *)
(* retrying executeRequest, the ping health probe and getSnapshot with its *)
(* four branches.                                                          *)
(*                                                                         *)
(* The specifications:                                                     *)
(*   Spec         one executeRequest call (optionally made by ping) run    *)
(*                against an upstream whose answer to each attempt is      *)
(*                fixed in the initial state.                              *)
(*   SpecLimiter  several callers of RateLimiter.waitForSlot on one        *)
(*                limiter, interleaved with the passing of time.           *)
(*   SpecSequential  the same limiter when each waitForSlot call starts   *)
(*                after the previous one was granted.                      *)
(*   SpecSnapshot one getSnapshot call: the four branches run concurrently *)
(*                against an upstream whose answers are fixed in the       *)
(*                initial state.                                           *)
(*   SpecNormalize  normalizeRate applied to a pair of amounts and to the  *)
(*                same pair scaled by a positive integer.                  *)
(*   SpecProbe    one findMaxLiquidity call, for every outcome of each of  *)
(*                its quotes.                                              *)
(*   SpecLive     one executeRequest call or one getSnapshot call, when    *)
(*                every pending request, timer and promise settles in the  *)
(*                end.                                                     *)
(***************************************************************************)
EXTENDS Integers, Sequences, FiniteSets, TLC

VARIABLES
    \* ---- executeRequest / ping (Spec) ----
    maxRetries,     \* retryConfig.maxRetries of the service instance
    caller,         \* who supplied requestFn and parseFn: "ping" or "quote"
    script,         \* the upstream: its outcome for every attempt index
    pc,             \* position inside executeRequest
    attempt,        \* the loop variable `attempt`
    lastError,      \* the local `lastError`
    slots,          \* number of waitForSlot() calls that have resolved
    requests,       \* number of requestFn() calls issued
    sleeps,         \* the backoff sleeps performed so far, in order (ms)
    result,         \* how the executeRequest promise settled
    authAt,         \* index of the attempt answered 401/403, or -1
    pingExit,       \* how the Effect returned by ping() exited
    \* ---- RateLimiter (SpecLimiter) ----
    requestsPerSecond, \* constructor argument of the service
    now,            \* Date.now(), in ms
    lastCallTime,   \* RateLimiter.lastCallTime
    lpc,            \* per caller: "idle", "waiting" or "granted"
    fireAt,         \* per caller: the time its setTimeout is due
    grants,         \* the times at which slots were granted, in order
    arrivals,       \* the waitForSlot calls not yet granted, in call order
    \* ---- getSnapshot (SpecSnapshot) ----
    variant,        \* which service: "resilient" (service.ts) or "strict"
    routes,         \* params.routes
    notionals,      \* params.notionals
    includeWindows, \* params.includeWindows || ["24h"]
    mode,           \* the upstream: how it answers each branch
    pos,            \* per branch: the number of items it has handled
    bstate,         \* per branch promise: "running", "fulfilled", "rejected"
    parts,          \* per branch: the array it has built so far
    outcome,        \* how the Effect returned by getSnapshot exited
    \* ---- normalizeRate (SpecNormalize) ----
    normInput,      \* amountIn, amountOut, the two decimal counts, a factor
    normResult,     \* what normalizeRate yields for the pair and its multiple
    \* ---- findMaxLiquidity (SpecProbe) ----
    probe,          \* the locals of findMaxLiquidity and the quote in flight
    quoted,         \* the amounts whose quote has settled, in order
    found           \* what findMaxLiquidity returned

execVars == <<maxRetries, caller, script, pc, attempt, lastError, slots,
              requests, sleeps, result, authAt, pingExit>>
limiterVars == <<requestsPerSecond, now, lastCallTime, lpc, fireAt, grants,
                 arrivals>>
snapVars == <<variant, routes, notionals, includeWindows, mode, pos, bstate,
              parts, outcome>>
normVars == <<normInput, normResult>>
probeVars == <<probe, quoted, found>>
vars == <<execVars, limiterVars, snapVars, normVars, probeVars>>

-----------------------------------------------------------------------------
(* Arithmetic helpers: Math.max, Math.min, Math.pow.                        *)

Max(a, b) == IF a >= b THEN a ELSE b
Min(a, b) == IF a <= b THEN a ELSE b

RECURSIVE Pow(_, _)
Pow(b, e) == IF e = 0 THEN 1 ELSE b * Pow(b, e - 1)

-----------------------------------------------------------------------------
(* Retry configuration (WormholeService constructor).                       *)

InitialDelayMs == 1000
MaxDelayMs == 10000
BackoffMultiplier == 2
\* The plugin's config schema admits maxRetries in 0..10.
MaxRetriesLimit == 10
RetryCounts == 0..MaxRetriesLimit

-----------------------------------------------------------------------------
(* The upstream.                                                            *)
(* An outcome is what `await requestFn()` (and then parseFn) meets on one   *)
(* attempt: a Response with a status, or a rejection of fetch.              *)
(*   kind "response": status, the Retry-After header (NoHeader when the     *)
(*        header is absent, else its characters) and whether the body is    *)
(*        what parseFn expects;                                             *)
(*   kind "reject": the class of the thrown value and its message.          *)
(* Status texts are the standard reason phrases of the status.              *)

NoHeader == <<"absent">>

RetryAfterHeaders ==
    { NoHeader,                     \* header absent: headers.get() is null
      <<>>,                         \* header present and empty
      <<"3", "0">>,
      <<"1", "2", "0">>,
      <<"W", "e", "d", ",", " ", "2", "1">> }   \* an HTTP-date

Response(st, h, ok) ==
    [kind |-> "response", status |-> st, header |-> h, bodyOk |-> ok,
     type |-> "none", msg |-> "none"]

Reject(t, m) ==
    [kind |-> "reject", status |-> 0, header |-> NoHeader, bodyOk |-> FALSE,
     type |-> t, msg |-> m]

\* What fetch rejects with:
\*   a network failure: TypeError("fetch failed");
\*   AbortSignal.timeout: DOMException TimeoutError;
\*   any other Error (the tests reject with Error("API unavailable"));
\*   an Error whose message says "Authentication failed".
NetworkFailure == Reject("TypeError", "fetch failed")
TimeoutFailure == Reject("DOMException", "The operation was aborted due to timeout")
OtherFailure == Reject("Error", "API unavailable")
AuthFailedSignal == Reject("Error", "Authentication failed")

Outcomes ==
    { Response(200, NoHeader, TRUE), Response(200, NoHeader, FALSE) }
    \cup { Response(st, NoHeader, FALSE) : st \in {400, 401, 403, 404, 500, 503} }
    \cup { Response(429, h, FALSE) : h \in RetryAfterHeaders }
    \cup { NetworkFailure, TimeoutFailure, OtherFailure, AuthFailedSignal }

\* The upstream answers attempts 0..k-1 with `a` and every later one with `b`.
Scripts(m) == [k : 0..(m + 1), a : Outcomes, b : Outcomes]
Upstream(i) == IF i < script.k THEN script.a ELSE script.b

-----------------------------------------------------------------------------
(* parseInt(s, 10) on a header value given as its characters.               *)

Digits == <<"0", "1", "2", "3", "4", "5", "6", "7", "8", "9">>
IsDigit(c) == \E d \in 1..10 : Digits[d] = c
DigitVal(c) == (CHOOSE d \in 1..10 : Digits[d] = c) - 1

RECURSIVE SkipSpaces(_)
SkipSpaces(s) == IF s # <<>> /\ Head(s) = " " THEN SkipSpaces(Tail(s)) ELSE s

RECURSIVE DigitPrefix(_)
DigitPrefix(s) ==
    IF s # <<>> /\ IsDigit(Head(s)) THEN <<Head(s)>> \o DigitPrefix(Tail(s)) ELSE <<>>

RECURSIVE Decimal(_)
Decimal(ds) == IF ds = <<>> THEN 0
               ELSE 10 * Decimal(SubSeq(ds, 1, Len(ds) - 1)) + DigitVal(ds[Len(ds)])

NaN == [isNaN |-> TRUE, val |-> 0]
Num(n) == [isNaN |-> FALSE, val |-> n]

ParseInt(s) ==
    LET t == SkipSpaces(s)
        neg == t # <<>> /\ Head(t) = "-"
        u == IF t # <<>> /\ Head(t) \in {"-", "+"} THEN Tail(t) ELSE t
        ds == DigitPrefix(u)
    IN  IF ds = <<>> THEN NaN
        ELSE Num(IF neg THEN 0 - Decimal(ds) ELSE Decimal(ds))

\* parseInt(response.headers.get("Retry-After") || "60", 10)
DefaultRetryAfter == <<"6", "0">>
RetryAfterOf(h) ==
    ParseInt(IF h = NoHeader \/ h = <<>> THEN DefaultRetryAfter ELSE h)

-----------------------------------------------------------------------------
(* Errors.  `at` is the attempt in which the error object was created: it   *)
(* stands for the object's identity.                                        *)

NoError == [type |-> "null", msg |-> "none", status |-> 0, retryAfter |-> NaN, at |-> -1]

Err(t, m, st, ra, i) ==
    [type |-> t, msg |-> m, status |-> st, retryAfter |-> ra, at |-> i]

\* `Request failed after all retries`, thrown when lastError is null.
Placeholder(i) == Err("Error", "Request failed after all retries", 0, NaN, i)

\* message.includes("fetch") / message.includes("Authentication failed")
\* on the messages the model can build.
IncludesFetch(m) == m = "fetch failed"
IncludesAuthFailed(m) == m = "Authentication failed"

\* The parse functions: ping's ignores the body and cannot fail; a data
\* parser throws on a body it cannot read (response.json() rejects).
ParseFails(who, o) == who # "ping" /\ ~o.bodyOk

-----------------------------------------------------------------------------
(* executeRequest (service.ts 139-216).                                     *)

ResponseOk(st) == st >= 200 /\ st <= 299

\* The attempt returns `await parseFn(response)`.
Succeeds(who, o) == o.kind = "response" /\ ResponseOk(o.status) /\ ~ParseFails(who, o)

\* `response.status >= 500 && attempt < maxRetries`: the "Server error" throw.
ServerErrorThrow(st, a, m) == st >= 500 /\ a < m

\* The value thrown inside the try block of attempt a on outcome o.
Thrown(who, o, a, m) ==
    IF o.kind = "reject" THEN Err(o.type, o.msg, 0, NaN, a)
    ELSE IF ResponseOk(o.status)
         THEN Err("SyntaxError", "Unexpected token in JSON", o.status, NaN, a)
    ELSE IF o.status = 429
         THEN Err("Error", "Rate limited. Retry after", 429, RetryAfterOf(o.header), a)
    ELSE IF o.status = 401 \/ o.status = 403
         THEN Err("PluginConfigurationError",
                  "Invalid API credentials or insufficient permissions", o.status, NaN, a)
    ELSE IF ServerErrorThrow(o.status, a, m)
         THEN Err("Error", "Server error", o.status, NaN, a)
    ELSE Err("Error", "HTTP", o.status, NaN, a)

\* The catch block's two re-throws: configuration errors, then
\* TypeError-with-"fetch" and "Authentication failed".
NeverConfigurationError(e) == FALSE
IsConfigurationError(e) == e.type = "PluginConfigurationError"
IsRethrown(e) ==
    \/ IsConfigurationError(e)
    \/ (e.type = "TypeError" /\ IncludesFetch(e.msg))
    \/ IncludesAuthFailed(e.msg)

\* `lastError = error instanceof Error ? error : new Error(String(error))`
KeepFirstError(prev, e) == IF prev.type = "null" THEN e ELSE prev
CaughtAs(prev, e) == e

\* `attempt < this.retryConfig.maxRetries` guarding the backoff sleep.
SleepsAfterEveryAttempt(a, m) == a <= m
SleepsBeforeRetry(a, m) == a < m

\* Math.min(initialDelayMs * Math.pow(backoffMultiplier, attempt), maxDelayMs)
BackoffDelayOfNextAttempt(a) ==
    Min(InitialDelayMs * Pow(BackoffMultiplier, a + 1), MaxDelayMs)
BackoffDelay(a) == Min(InitialDelayMs * Pow(BackoffMultiplier, a), MaxDelayMs)

\* The for loop's condition `attempt <= this.retryConfig.maxRetries`.
LoopOneTooMany(a, m) == a <= m + 1
LoopOneTooFew(a, m) == a < m
LoopContinues(a, m) == a <= m

Pending == [tag |-> "pending", value |-> "none", error |-> NoError]
Returned(v) == [tag |-> "returned", value |-> v, error |-> NoError]
Raised(e) == [tag |-> "raised", value |-> "none", error |-> e]

\* `throw lastError || new Error("Request failed after all retries")`
AfterLoop(le, a) == Raised(IF le = NoError THEN Placeholder(a) ELSE le)

\* The value parseFn yields for the caller.
Parsed(who) == IF who = "ping" THEN "status ok" ELSE "parsed body"

\* Control reaches the loop test with attempt = a and lastError = le.
LoopTest(a, le) ==
    /\ attempt' = a
    /\ IF LoopContinues(a, maxRetries)
       THEN pc' = "slot" /\ result' = result
       ELSE pc' = "done" /\ result' = AfterLoop(le, a)

\* `await this.rateLimiter.waitForSlot()` resolves; requestFn() is called.
SlotGranted ==
    /\ pc = "slot"
    /\ slots' = slots + 1
    /\ requests' = requests + 1
    /\ pc' = "request"
    /\ UNCHANGED <<maxRetries, caller, script, attempt, lastError, sleeps,
                   result, authAt, pingExit, limiterVars, snapVars, normVars, probeVars>>

\* requestFn() (and parseFn) settle: return, re-throw, start the backoff
\* sleep, or go round the loop.
RequestSettled ==
    /\ pc = "request"
    /\ LET o == Upstream(attempt)
           e == Thrown(caller, o, attempt, maxRetries)
       IN  IF Succeeds(caller, o)
           THEN /\ result' = Returned(Parsed(caller))
                /\ pc' = "done"
                /\ UNCHANGED <<attempt, lastError, sleeps, authAt>>
           ELSE /\ lastError' = CaughtAs(lastError, e)
                /\ authAt' = IF o.kind = "response" /\ o.status \in {401, 403} /\ authAt = -1
                             THEN attempt ELSE authAt
                /\ IF IsRethrown(lastError')
                   THEN /\ result' = Raised(lastError')
                        /\ pc' = "done"
                        /\ UNCHANGED <<attempt, sleeps>>
                   ELSE IF SleepsBeforeRetry(attempt, maxRetries)
                   THEN /\ sleeps' = Append(sleeps, BackoffDelay(attempt))
                        /\ pc' = "backoff"
                        /\ UNCHANGED <<attempt, result>>
                   ELSE /\ LoopTest(attempt + 1, lastError')
                        /\ UNCHANGED sleeps
    /\ UNCHANGED <<maxRetries, caller, script, slots, requests, pingExit, limiterVars, snapVars, normVars, probeVars>>

\* The backoff setTimeout fires; the loop increments attempt.
BackoffElapsed ==
    /\ pc = "backoff"
    /\ LoopTest(attempt + 1, lastError)
    /\ UNCHANGED <<maxRetries, caller, script, lastError, slots, requests, sleeps,
                   authAt, pingExit, limiterVars, snapVars, normVars, probeVars>>

-----------------------------------------------------------------------------
(* ping (service.ts 637-666): Effect.tryPromise({try, catch}).  The Effect  *)
(* succeeds with the value `try` resolves to; when `try` rejects, the       *)
(* Effect fails with the value `catch` returns.                             *)

PingPending == [tag |-> "pending", status |-> "none"]
NotPing == [tag |-> "not ping", status |-> "none"]

TryPromise(settled, onTry, onCatch) ==
    IF settled.tag = "returned" THEN [tag |-> "Success", status |-> onTry]
    ELSE [tag |-> "Failure", status |-> onCatch]

PingSettles ==
    /\ caller = "ping"
    /\ pc = "done"
    /\ pingExit = PingPending
    /\ pingExit' = TryPromise(result, "ok", "ok")
    /\ UNCHANGED <<maxRetries, caller, script, pc, attempt, lastError, slots,
                   requests, sleeps, result, authAt, limiterVars, snapVars, normVars, probeVars>>

\* initialize of the plugin (part_001 310-325): `yield* service.ping()`, so a
\* failure of the ping Effect is the failure of initialize.  The other copy
\* (wormhole-data-provider index.ts 38-54) pipes ping through
\* Effect.catchAll(() => Effect.void) first.
Plugins == {"part_001", "index.ts"}
CatchesPingErrors(plugin) == plugin = "index.ts"
Initialize(plugin, ping) ==
    IF ping.tag = "pending" THEN [tag |-> "pending", status |-> "none"]
    ELSE IF ping.tag = "Success" \/ CatchesPingErrors(plugin)
         THEN [tag |-> "Success", status |-> "service"]
    ELSE [tag |-> "Failure", status |-> ping.status]

-----------------------------------------------------------------------------
(* RateLimiter (service.ts 26-48) and its construction (service.ts 85-87).  *)

\* Bounds of the limiter model: callers, waitForSlot calls, clock ticks.
NumCallers == 3
MaxCalls == 4
MaxTicks == 6

Callers == 1..NumCallers

\* Math.max(100, 1000 / requestsPerSecond), for rates that divide 1000.
MinIntervalFloorMs == 100
MinIntervalMs(rps) == Max(MinIntervalFloorMs, 1000 \div rps)
RequestRates == {5, 10, 100}

\* The clock advances in steps of half the smallest interval; Date.now() of
\* a running process is far from 0, the initial lastCallTime.
ClockStep == MinIntervalFloorMs \div 2
StartTime == 10 * MinIntervalFloorMs
EndTime == StartTime + MaxTicks * ClockStep

\* Math.max(0, this.minIntervalMs - (now - this.lastCallTime))
NoWait(t, last, minInterval) == 0
TimeToWait(t, last, minInterval) == Max(0, minInterval - (t - last))

\* waitForSlot(): the Promise executor reads the clock and lastCallTime and
\* arms setTimeout(timeToWait).
CallWaitForSlot(c) ==
    /\ lpc[c] = "idle"
    /\ Len(grants) + Cardinality({d \in Callers : lpc[d] = "waiting"}) < MaxCalls
    /\ lpc' = [lpc EXCEPT ![c] = "waiting"]
    /\ fireAt' = [fireAt EXCEPT ![c] =
                     now + TimeToWait(now, lastCallTime, MinIntervalMs(requestsPerSecond))]
    /\ arrivals' = Append(arrivals, [caller |-> c, at |-> now])
    /\ UNCHANGED <<requestsPerSecond, now, lastCallTime, grants, execVars, snapVars, normVars, probeVars>>

\* The place of caller c among the calls not yet granted.
Position(c) == CHOOSE k \in 1..Len(arrivals) : arrivals[k].caller = c

\* setTimeout: the runtime runs expired timers in the order in which they
\* fall due, and timers armed with the same delay in the order in which they
\* were armed.  Two timers that fall due together but were armed with
\* different delays run in either order.
TimerOrder(c) ==
    \A k \in 1..Len(arrivals) :
        k # Position(c) =>
            /\ fireAt[arrivals[k].caller] >= fireAt[c]
            /\ (/\ fireAt[arrivals[k].caller] = fireAt[c]
                /\ arrivals[k].at = arrivals[Position(c)].at) => k > Position(c)

\* `this.lastCallTime = Date.now()`
GrantTimeNegated(t) == 0 - t
GrantTime(t) == t

\* The timer callback: `this.lastCallTime = Date.now(); resolve()`.
TimerFires(c) ==
    /\ lpc[c] = "waiting"
    /\ now >= fireAt[c]
    /\ TimerOrder(c)
    /\ lastCallTime' = GrantTime(now)
    /\ grants' = Append(grants, now)
    /\ lpc' = [lpc EXCEPT ![c] = "idle"]
    /\ fireAt' = [fireAt EXCEPT ![c] = 0]
    /\ arrivals' = SelectSeq(arrivals, LAMBDA w : w.caller # c)
    /\ UNCHANGED <<requestsPerSecond, now, execVars, snapVars, normVars, probeVars>>

\* Time passes.
Tick ==
    /\ now < EndTime
    /\ now' = now + ClockStep
    /\ UNCHANGED <<requestsPerSecond, lastCallTime, lpc, fireAt, grants, arrivals,
                   execVars, snapVars, normVars, probeVars>>

LimiterIdle ==
    /\ requestsPerSecond = 10
    /\ now = StartTime
    /\ lastCallTime = 0
    /\ lpc = [c \in Callers |-> "idle"]
    /\ fireAt = [c \in Callers |-> 0]
    /\ grants = <<>>
    /\ arrivals = <<>>

-----------------------------------------------------------------------------
(* getSnapshot (service.ts 107-134) and its four branches.                  *)
(* The repository holds the service twice: service.ts, whose branches go    *)
(* through executeRequest and substitute estimates when a call fails        *)
(* ("resilient"), and the operations-based service of part_000 211-612,     *)
(* whose branches fetch /operations directly and throw ("strict").  Both    *)
(* have the same getSnapshot.  Timestamps (measuredAt, quotedAt) are left   *)
(* out of the entries.                                                      *)

MaxRoutes == 2
MaxNotionals == 2
MaxWindows == 2

Variants == {"resilient", "strict"}
Branches == {"volumes", "rates", "liquidity", "listedAssets"}

\* ---- the parameters of getSnapshot ----
Asset(chain, sym, dec) ==
    [chainId |-> chain, assetId |-> sym, symbol |-> sym, decimals |-> dec]

\* Route i: 6-decimal USDC on chain 1 to USDC on chain 1 + i, with 6 or 8
\* decimals.
Route(i) ==
    [source |-> Asset(1, "USDC", 6),
     destination |-> Asset(1 + i, "USDC", IF i % 2 = 0 THEN 8 ELSE 6)]

RECURSIVE DecimalString(_)
DecimalString(n) ==
    IF n < 10 THEN <<Digits[n + 1]>>
    ELSE DecimalString(n \div 10) \o <<Digits[(n % 10) + 1]>>

\* Notional i, in smallest units of the source asset: "1000", "0", "0500",
\* then "4000", "5000", ...
Notional(i) ==
    CASE i = 1 -> <<"1", "0", "0", "0">>
      [] i = 2 -> <<"0">>
      [] i = 3 -> <<"0", "5", "0", "0">>
      [] OTHER -> DecimalString(i * 1000)

WindowNames == <<"24h", "7d", "30d">>
Window(i) == WindowNames[((i - 1) % 3) + 1]

RouteLists == {[i \in 1..n |-> Route(i)] : n \in 0..MaxRoutes}
NotionalLists == {[i \in 1..n |-> Notional(i)] : n \in 1..MaxNotionals}
WindowLists == {[i \in 1..n |-> Window(i)] : n \in 0..MaxWindows}

\* ---- the upstream, seen by one branch ----
\* The answer to a request is one of
\*   "live"          a 2xx answer with the data asked for;
\*   "empty"         a 2xx answer that holds no data (no amountOut, no
\*                   operations);
\*   "down"          the request fails (fetch rejects, "API unavailable");
\*   "unauthorized"  the request is answered 401.
\* mode[b] fixes the answer to every item of branch b: "live", "empty",
\* "fails" (every item fails), or "mixed" (odd items fail, even ones are
\* live); mode.failure is how a failing request fails.
Modes ==
    [volumes : {"live", "fails"},
     rates : {"live", "fails", "mixed"},
     liquidity : {"live", "empty", "fails"},
     listedAssets : {"live", "fails"},
     failure : {"down", "unauthorized"}]

AnswerIn(md, failure, i) ==
    IF md \in {"live", "empty"} THEN md
    ELSE IF md = "mixed" /\ i % 2 = 0 THEN "live"
    ELSE failure

\* The outcome every attempt of a request meets under an answer.
OutcomeOf(a) ==
    CASE a = "down" -> OtherFailure
      [] a = "unauthorized" -> Response(401, NoHeader, TRUE)
      [] OTHER -> Response(200, NoHeader, TRUE)

\* executeRequest taken as a whole, when every attempt meets outcome o (a
\* 2xx outcome with bodyOk = FALSE is one on which parseFn throws): it
\* returns the parsed body, re-throws at the first attempt, or raises the
\* error of the last attempt.
ExecuteRequest(o, m) ==
    IF Succeeds("quote", o) THEN Returned(Parsed("quote"))
    ELSE IF IsRethrown(Thrown("quote", o, 0, m)) THEN Raised(Thrown("quote", o, 0, m))
    ELSE Raised(Thrown("quote", o, m, m))

\* The direct fetch of the strict variant: `if (!response.ok) throw`.
DirectFetch(o) ==
    IF o.kind = "response" /\ ResponseOk(o.status) THEN Returned(Parsed("quote"))
    ELSE IF o.kind = "response" THEN Raised(Err("Error", "HTTP", o.status, NaN, 0))
    ELSE Raised(Err(o.type, o.msg, 0, NaN, 0))

\* What one step of a branch yields: an entry, or a thrown error.
Entry(e) == [ok |-> TRUE, entry |-> e]
Throws == [ok |-> FALSE, entry |-> <<>>]

\* ---- amounts and JavaScript numbers ----
\* BigInt(s) of a string of decimal digits.
BigIntOf(s) == Decimal(s)

RECURSIVE Zeros(_)
Zeros(d) == IF d = 0 THEN <<>> ELSE <<"0">> \o Zeros(d - 1)

\* (BigInt(n) * BigInt(10) ** BigInt(decimals)).toString()
InSmallestUnits(n, decimals) ==
    IF n = 0 THEN <<"0">> ELSE DecimalString(n) \o Zeros(decimals)

\* A JavaScript number a / b, kept as the fraction (a, b >= 0).
Divide(a, b) ==
    IF b # 0 THEN [class |-> "finite", num |-> a, den |-> b]
    ELSE IF a = 0 THEN [class |-> "NaN", num |-> 0, den |-> 0]
    ELSE [class |-> "Infinity", num |-> 0, den |-> 0]

\* 10 ** (d - min(d, e)): the part of a multiplier that another multiplier
\* 10 ** e does not cancel.
Multiplier(d, e) == Pow(10, d - Min(d, e))

\* ---- getVolumes ----
VolumeEntry(w, v) == [window |-> w, volumeUsd |-> v]

\* The volume the upstream reports for a window.
LiveVolumeUsd(w) ==
    CASE w = "24h" -> 5000000 [] w = "7d" -> 36000000 [] OTHER -> 140000000

EstimateVolumeForWindow(w) ==
    CASE w = "24h" -> 5000000 [] w = "7d" -> 35000000 [] OTHER -> 150000000

RethrowingVolumesItem(v, w, a, m) ==
    IF ExecuteRequest(OutcomeOf(a), m).tag = "returned"
    THEN Entry(VolumeEntry(w, LiveVolumeUsd(w)))
    ELSE Throws
VolumesItem(v, w, a, m) ==
    IF v = "resilient"
    THEN IF ExecuteRequest(OutcomeOf(a), m).tag = "returned"
         THEN Entry(VolumeEntry(w, LiveVolumeUsd(w)))
         ELSE Entry(VolumeEntry(w, EstimateVolumeForWindow(w)))
    ELSE IF DirectFetch(OutcomeOf(a)).tag = "returned"
         THEN Entry(VolumeEntry(w, LiveVolumeUsd(w)))
         ELSE Throws

\* ---- getRates ----
RateQuote(route, amountIn, amountOut, rate, fees) ==
    [source |-> route.source, destination |-> route.destination,
     amountIn |-> amountIn, amountOut |-> amountOut,
     effectiveRate |-> rate, totalFeesUsd |-> fees]

\* The amountOut the upstream quotes for amountIn (1% below par).
QuotedAmountOut(route, n) ==
    LET sd == route.source.decimals
        dd == route.destination.decimals
    IN  (n * 99 * Multiplier(dd, sd)) \div (100 * Multiplier(sd, dd))

\* estimateFeesUsd: (amount / 10^decimals) * (5 / 10000).
EstimateFeesUsd(n, decimals) == Divide(n, 2000 * Pow(10, decimals))

\* The fee field of a quote: absent, a number of USD, or a string.
NoFee == [kind |-> "absent", usd |-> Divide(0, 1)]
FeeNumber(usd) == [kind |-> "number", usd |-> usd]
FeeString == [kind |-> "string", usd |-> Divide(0, 1)]

\* The fee the upstream puts into its quote for a route: none for routes to
\* chain 2, the number 2 for routes to chain 3, a string for the others.
QuotedFee(route) ==
    CASE route.destination.chainId = 2 -> NoFee
      [] route.destination.chainId = 3 -> FeeNumber(Divide(2, 1))
      [] OTHER -> FeeString

\* `feeAmount = apiData.fee || apiData.totalFees || apiData.feeUsd || 0`,
\* then `typeof feeAmount === "number" && !isNaN(feeAmount) ? feeAmount :
\* this.estimateFeesUsd(amountInNum, source.decimals)`: an absent fee has
\* become the number 0 by the time its type is tested.
FeeInUsd(fee, n, decimals) ==
    IF fee.kind = "absent" THEN Divide(0, 1)
    ELSE IF fee.kind = "number" THEN fee.usd
    ELSE EstimateFeesUsd(n, decimals)

\* normalizeRate: effectiveRate = (amountOut / 10^dd) / (amountIn / 10^sd),
\* for amountIn = n and amountOut = out as bigints.
AmountInIsZero(n) == n = 0
NormalizeRate(route, n, out, fee) ==
    IF AmountInIsZero(n) THEN Throws
    ELSE Entry(RateQuote(route, DecimalString(n), DecimalString(out),
                         Divide(out * Multiplier(route.source.decimals,
                                                 route.destination.decimals),
                                n * Multiplier(route.destination.decimals,
                                               route.source.decimals)),
                         FeeInUsd(fee, n, route.source.decimals)))

\* estimateRate, for amountIn = n as a bigint: amountOut is 99.5% of
\* amountIn; the rate is the quotient of the two normalized amounts.
EstimateRate(route, n) ==
    RateQuote(route, DecimalString(n),
              DecimalString((n * 995 * Multiplier(route.destination.decimals,
                                                  route.source.decimals))
                            \div (1000 * Multiplier(route.source.decimals,
                                                    route.destination.decimals))),
              Divide(n * 995, n * 1000),
              EstimateFeesUsd(n, route.source.decimals))

\* ---- the operations the strict variant works from ----
Operation(from, to, token, usd) ==
    [emitterChain |-> from, toChain |-> to, tokenAmount |-> token, usdAmount |-> usd]

\* data.operations of a live answer: twelve transfers, ten of them sent from
\* chain 1 and two from chain 5, alternately to chain 9 and to chain 2, of
\* decreasing size, each priced at 0.999 USD per token.
Operations(a) ==
    IF a = "live"
    THEN [k \in 1..12 |->
             Operation(IF k <= 10 THEN 1 ELSE 5, IF k % 2 = 0 THEN 2 ELSE 9,
                       1000 * (13 - k), 999 * (13 - k))]
    ELSE <<>>

\* The filter of getRates and getLiquidityDepth:
\* `fromChain === route.source.chainId || toChain === route.destination.chainId`.
MatchesRoute(op, route) ==
    op.emitterChain = route.source.chainId \/ op.toChain = route.destination.chainId

\* operations.filter(..) under a matching rule.
Filter(ops, route, Matches(_, _)) ==
    LET Test(op) == Matches(op, route) IN SelectSeq(ops, Test)

MatchingOps(ops, route) == Filter(ops, route, MatchesRoute)

\* matchingOps (getRates) and routeOps (getLiquidityDepth), tabulated by
\* route and answer.
RouteOps ==
    [route \in {Route(i) : i \in 1..MaxRoutes},
     a \in {"live", "empty", "down", "unauthorized"} |->
        MatchingOps(Operations(a), route)]

\* The average of usdAmount / tokenAmount over the first ten matching
\* operations that have both amounts positive, 0.995 when there is none.
\* Every operation of the model has the same price, so the mean of the
\* prices is the price of the first one.
AverageRate(matchingOps) ==
    LET Priced(op) == op.tokenAmount > 0 /\ op.usdAmount > 0
        priced == SelectSeq(SubSeq(matchingOps, 1, Min(10, Len(matchingOps))), Priced)
    IN  IF Len(priced) > 0 THEN Divide(priced[1].usdAmount, priced[1].tokenAmount)
        ELSE Divide(995, 1000)

\* The rate the strict variant derives for amountIn = n (parseFloat).
OperationsRate(route, notional, n, avgRate) ==
    RateQuote(route, notional,
              DecimalString((n * avgRate.num) \div avgRate.den),
              avgRate,
              Divide(n * (avgRate.den - avgRate.num), avgRate.den))

\* The strict loop body of getRates once the operations are fetched.
RateFromOperations(route, notional, matchingOps) ==
    IF Len(matchingOps) > 0
    THEN Entry(OperationsRate(route, notional, BigIntOf(notional),
                              AverageRate(matchingOps)))
    ELSE Throws

\* The quote request of getRates: its parseFn is normalizeRate on the body.
QuoteRequest(route, n, a, parsed, m) ==
    IF ExecuteRequest(IF a \in {"live", "empty"}
                      THEN Response(200, NoHeader, parsed.ok) ELSE OutcomeOf(a),
                      m).tag = "returned"
    THEN parsed
    ELSE Entry(EstimateRate(route, n))

RatesItem(v, route, notional, a, m) ==
    IF v = "resilient"
    THEN QuoteRequest(route, BigIntOf(notional), a,
                      IF a = "live"
                      THEN NormalizeRate(route, BigIntOf(notional),
                                         QuotedAmountOut(route, BigIntOf(notional)),
                                         QuotedFee(route))
                      ELSE Throws,
                      m)
    ELSE IF DirectFetch(OutcomeOf(a)).tag = "returned"
         THEN RateFromOperations(route, notional, RouteOps[route, a])
         ELSE Throws

\* ---- getLiquidityDepth ----
MinProbeAmount == 1000
MaxProbeAmount == 10000000
ProbeIterations == 20
ThresholdsBps == <<50, 100>>

Threshold(amount, bps) == [maxAmountIn |-> amount, slippageBps |-> bps]
LiquidityEntry(route, ts) == [route |-> route, thresholds |-> ts]

\* The slippage, in bps, that calculateSlippage finds in the quote the
\* upstream gives for testAmount: it grows with the amount on a live market;
\* a quote without amountOut counts as an output of 0, i.e. 10000 bps.
QuotedSlippageBps(a, testAmount) ==
    IF a = "live" THEN testAmount \div 50000 ELSE 10000

\* The loop of findMaxLiquidity from iteration i on.  returned tells whether
\* executeRequest returns a quote to this probe: the upstream answers every
\* quote request of a probe alike, whatever the amount.
RECURSIVE ProbeFrom(_, _, _, _, _, _, _)
ProbeFrom(i, minAmount, maxAmount, bestAmount, slippageBps, a, returned) ==
    IF i >= ProbeIterations THEN bestAmount
    ELSE LET testAmount == (minAmount + maxAmount) \div 2
         IN  IF returned /\ QuotedSlippageBps(a, testAmount) <= slippageBps
             THEN ProbeFrom(i + 1, testAmount + 1, maxAmount, testAmount,
                            slippageBps, a, returned)
             ELSE ProbeFrom(i + 1, minAmount, testAmount - 1, bestAmount,
                            slippageBps, a, returned)

\* bestAmount at the end of the loop, tabulated by threshold and answer.
BestAmountFromZero ==
    [slippageBps \in {50, 100}, a \in {"live", "empty", "down", "unauthorized"},
     returned \in BOOLEAN |->
        ProbeFrom(0, MinProbeAmount, MaxProbeAmount, 0, slippageBps, a, returned)]
BestAmount ==
    [slippageBps \in {50, 100}, a \in {"live", "empty", "down", "unauthorized"},
     returned \in BOOLEAN |->
        ProbeFrom(0, MinProbeAmount, MaxProbeAmount, MinProbeAmount,
                  slippageBps, a, returned)]

\* The amounts findMaxLiquidity asks a quote for, in order.
RECURSIVE ProbedFrom(_, _, _, _, _, _)
ProbedFrom(i, minAmount, maxAmount, slippageBps, a, returned) ==
    IF i >= ProbeIterations THEN <<>>
    ELSE LET testAmount == (minAmount + maxAmount) \div 2
         IN  <<testAmount>> \o
             (IF returned /\ QuotedSlippageBps(a, testAmount) <= slippageBps
              THEN ProbedFrom(i + 1, testAmount + 1, maxAmount, slippageBps, a, returned)
              ELSE ProbedFrom(i + 1, minAmount, testAmount - 1, slippageBps, a, returned))

\* The same, tabulated by threshold and answer.
ProbedAmounts ==
    [slippageBps \in {50, 100}, a \in {"live", "empty", "down", "unauthorized"},
     returned \in BOOLEAN |->
        ProbedFrom(0, MinProbeAmount, MaxProbeAmount, slippageBps, a, returned)]

FindMaxLiquidity(route, slippageBps, a, m) ==
    Threshold(InSmallestUnits(
                  BestAmount[slippageBps, a,
                             ExecuteRequest(OutcomeOf(a), m).tag = "returned"],
                  route.source.decimals),
              slippageBps)

\* estimateLiquidityAmount: 2,000,000 at 50 bps, 1,000,000 otherwise.
EstimateLiquidityAmount(asset, slippageBps) ==
    InSmallestUnits(IF slippageBps = 50 THEN 2000000 ELSE 1000000, asset.decimals)

\* findMaxLiquidity catches every failure of its quotes, so with decimals
\* that are natural numbers the Promise.all of the two probes never rejects.
ProbesReject(route) == route.source.decimals \notin Nat

\* amounts.sort((a, b) => b - a): largest first.
RECURSIVE InsertDescending(_, _)
InsertDescending(sorted, x) ==
    IF sorted = <<>> THEN <<x>>
    ELSE IF x >= Head(sorted) THEN <<x>> \o sorted
    ELSE <<Head(sorted)>> \o InsertDescending(Tail(sorted), x)

RECURSIVE SortDescending(_)
SortDescending(xs) ==
    IF xs = <<>> THEN <<>>
    ELSE InsertDescending(SortDescending(SubSeq(xs, 1, Len(xs) - 1)), xs[Len(xs)])

\* The positive USD amounts of the route's operations, largest first.
RouteAmounts(routeOps) ==
    LET Positive(amt) == amt > 0
    IN  SortDescending(SelectSeq([k \in 1..Len(routeOps) |-> routeOps[k].usdAmount],
                                 Positive))


\* `amounts[Math.floor(amounts.length * p)] || 0`, then toFixed(0).
Percentile(amounts, pct) ==
    LET idx == (Len(amounts) * pct) \div 100
    IN  DecimalString(IF idx + 1 \in DOMAIN amounts THEN amounts[idx + 1] ELSE 0)

\* The two thresholds the strict variant reads off the sorted amounts.
PercentileThresholds(amounts) ==
    <<Threshold(Percentile(amounts, 5), 50), Threshold(Percentile(amounts, 10), 100)>>

\* The thresholds of the strict variant, tabulated by route and answer.
RouteThresholds ==
    [route \in {Route(i) : i \in 1..MaxRoutes},
     a \in {"live", "empty", "down", "unauthorized"} |->
        PercentileThresholds(RouteAmounts(RouteOps[route, a]))]

LiquidityItem(v, route, a, m) ==
    IF v = "resilient"
    THEN IF ~ProbesReject(route)
         THEN Entry(LiquidityEntry(route,
                  [t \in 1..2 |-> FindMaxLiquidity(route, ThresholdsBps[t], a, m)]))
         ELSE Entry(LiquidityEntry(route,
                  [t \in 1..2 |-> Threshold(EstimateLiquidityAmount(route.source,
                                                                    ThresholdsBps[t]),
                                            ThresholdsBps[t])]))
    ELSE IF DirectFetch(OutcomeOf(a)).tag = "returned"
         THEN Entry(LiquidityEntry(route,
                  RouteThresholds[route, a]))
         ELSE Throws

\* ---- getListedAssets ----
\* The assets the upstream data mention, in order: the third has the key
\* (chainId, assetId) of the first and another symbol.
UpstreamAssets ==
    <<Asset(1, "USDC", 6), Asset(2, "USDC", 6),
      [chainId |-> 1, assetId |-> "USDC", symbol |-> "USDC.e", decimals |-> 6]>>

\* The key of the strict variant's assetMap: `${chainId}-${tokenAddress}`.
AssetKey(asset) == <<asset.chainId, asset.assetId>>

\* `if (!assetMap.has(key)) assetMap.set(key, {.., decimals: 6})`, then
\* Array.from(assetMap.values()): the first asset seen for each key, in
\* order of first appearance.
RECURSIVE UniqueAssets(_)
UniqueAssets(assets) ==
    IF assets = <<>> THEN <<>>
    ELSE LET front == UniqueAssets(SubSeq(assets, 1, Len(assets) - 1))
             last == assets[Len(assets)]
         IN  IF \E i \in 1..Len(front) : AssetKey(front[i]) = AssetKey(last)
             THEN front
             ELSE Append(front, [last EXCEPT !.decimals = 6])

GetFallbackAssets ==
    <<Asset(1, "USDC", 6), Asset(1, "USDT", 6), Asset(137, "USDC", 6),
      Asset(42161, "USDC", 6), Asset(56, "USDC", 18), Asset(43114, "USDC", 6),
      Asset(1399811149, "USDC", 6)>>

ListedAssetsItem(v, a, m) ==
    IF v = "resilient"
    THEN IF ExecuteRequest(OutcomeOf(a), m).tag = "returned"
         THEN Entry(UpstreamAssets)
         ELSE Entry(GetFallbackAssets)
    ELSE IF DirectFetch(OutcomeOf(a)).tag = "returned"
         THEN Entry(UniqueAssets(UpstreamAssets))
         ELSE Throws

\* ---- the requests of the branches ----
\* The largest pageSize the operations endpoint accepts.
MaxPageSize == 100

\* The pageSize of the /operations request the strict variant issues for an
\* item of branch b; window is the volume window the item is for.
PageSize(b, window) ==
    CASE b = "volumes" ->
             IF window = "24h" THEN 100 ELSE IF window = "7d" THEN 500 ELSE 1000
      [] b = "rates" -> 50
      [] b = "liquidity" -> 200
      [] b = "listedAssets" -> 500
      [] OTHER -> 1

\* The waitForSlot grants that precede one upstream request of operation
\* op: the resilient variant issues every request from executeRequest,
\* behind `await this.rateLimiter.waitForSlot()`; the strict variant awaits
\* a slot in ping only.
SlotsPerRequest(v, op) == IF v = "resilient" \/ op = "ping" THEN 1 ELSE 0

\* ---- the four branches and Promise.all ----
\* Number of upstream items a branch works through.
Length(b) ==
    CASE b = "volumes" -> Len(includeWindows)
      [] b = "rates" -> Len(routes) * Len(notionals)
      [] b = "liquidity" -> Len(routes)
      [] OTHER -> 1

\* getRates: `for (const route of routes) for (const notional of notionals)`.
RouteByRemainder(i) == routes[((i - 1) % Len(routes)) + 1]
RouteOfItem(i) == routes[((i - 1) \div Len(notionals)) + 1]
NotionalOfItem(i) == notionals[((i - 1) % Len(notionals)) + 1]

\* What branch b does with its i-th item when the upstream answers it a.
ItemUnder(b, i, a) ==
    CASE b = "volumes" -> VolumesItem(variant, includeWindows[i], a, maxRetries)
      [] b = "rates" ->
             RatesItem(variant, RouteOfItem(i), NotionalOfItem(i), a, maxRetries)
      [] b = "liquidity" -> LiquidityItem(variant, routes[i], a, maxRetries)
      [] OTHER -> ListedAssetsItem(variant, a, maxRetries)

Item(b, i) == ItemUnder(b, i, AnswerIn(mode[b], mode.failure, i))

\* volumes.push(..) / rates.push(..) / liquidityData.push(..); the assets
\* branch returns the list its one request yields.
Collect(b, part, e) == IF b = "listedAssets" THEN e ELSE Append(part, e)

\* The array of branch b after a step that yields r.
Extend(b, part, r) == IF r.ok THEN Collect(b, part, r.entry) ELSE part

NoParts == [volumes |-> <<>>, rates |-> <<>>, liquidity |-> <<>>, listedAssets |-> <<>>]

\* The object getSnapshot builds from the four results.
Snapshot(ps) ==
    [volumes |-> ps.volumes, rates |-> ps.rates, liquidity |-> ps.liquidity,
     listedAssets |-> [assets |-> ps.listedAssets]]

SnapshotError == Err("Error", "Failed to fetch snapshot", 0, NaN, 0)

\* Promise.all over the four branch promises: rejected as soon as one of
\* them is, fulfilled when all of them are.
PromiseAll(st, ps) ==
    IF \E b \in Branches : st[b] = "rejected" THEN Raised(SnapshotError)
    ELSE IF \A b \in Branches : st[b] = "fulfilled" THEN Returned(Snapshot(ps))
    ELSE Pending

SnapshotPending == [tag |-> "pending", status |-> NoError]

\* The exit of the Effect of getSnapshot once Promise.all has settled.
SnapshotExit(prev, all) ==
    IF prev.tag # "pending" \/ all.tag = "pending" THEN prev
    ELSE TryPromise(all, all.value, all.error)

\* ---- the getSnapshot handler of the plugin (index.ts 62-93) ----
\* error.message.includes("Rate limited"): the message of a snapshot error
\* is "Failed to fetch snapshot: " followed by the message of the branch
\* that threw.
IncludesRateLimited(msg) == msg = "Rate limited. Retry after"

\* `retryAfterMatch ? parseInt(retryAfterMatch[1], 10) : 60`
MatchedRetryAfter(e) ==
    IF e.retryAfter.isNaN \/ e.retryAfter.val < 0 THEN 60 ELSE e.retryAfter.val

Reply(code, retryAfter) == [tag |-> "error", code |-> code, retryAfter |-> retryAfter]

\* What the handler gives its client for an exit of service.getSnapshot:
\* the snapshot, or the error its catch block maps the failure to.
GetSnapshotHandler(exit) ==
    IF exit.tag = "pending" THEN [tag |-> "pending", code |-> "none", retryAfter |-> 0]
    ELSE IF exit.tag = "Success"
         THEN [tag |-> "snapshot", code |-> "none", retryAfter |-> 0]
    ELSE IF IsConfigurationError(exit.status) THEN Reply("UNAUTHORIZED", 0)
    ELSE IF IncludesRateLimited(exit.status.msg)
         THEN Reply("RATE_LIMITED", MatchedRetryAfter(exit.status))
    ELSE Reply("SERVICE_UNAVAILABLE", 30)

\* A branch goes on while its own loop has items left and has not thrown.
StopsWithSnapshot(b) == bstate[b] = "running" /\ outcome.tag = "pending"
BranchRuns(b) == bstate[b] = "running"

\* Branch b receives the answer to its pending request, handles it, and
\* issues its next request if it has one; Promise.all and the Effect settle
\* in the same turn.
BranchStep(b) ==
    /\ BranchRuns(b)
    /\ \E r \in {Item(b, pos[b] + 1)} :
           /\ pos' = [pos EXCEPT ![b] = @ + 1]
           /\ parts' = [parts EXCEPT ![b] = Extend(b, @, r)]
           /\ bstate' = [bstate EXCEPT ![b] =
                            IF ~r.ok THEN "rejected"
                            ELSE IF pos[b] + 1 = Length(b) THEN "fulfilled"
                            ELSE "running"]
    /\ outcome' = SnapshotExit(outcome, PromiseAll(bstate', parts'))
    /\ UNCHANGED <<variant, routes, notionals, includeWindows, mode,
                   execVars, limiterVars, normVars, probeVars>>

GetVolumesStep == BranchStep("volumes")
GetRatesStep == BranchStep("rates")
GetLiquidityDepthStep == BranchStep("liquidity")
GetListedAssetsStep == BranchStep("listedAssets")

\* No getSnapshot call is in progress.
SnapshotIdle ==
    /\ variant = "resilient"
    /\ routes = <<>>
    /\ notionals = <<>>
    /\ includeWindows = <<>>
    /\ mode = [volumes |-> "live", rates |-> "live", liquidity |-> "live",
               listedAssets |-> "live", failure |-> "down"]
    /\ pos = [b \in Branches |-> 0]
    /\ bstate = [b \in Branches |-> "fulfilled"]
    /\ parts = NoParts
    /\ outcome = SnapshotPending

-----------------------------------------------------------------------------
(* normalizeRate on its own (service.ts 325-374).                           *)

\* Bounds: the amounts, in smallest units, and the scaling factor.
MaxAmount == 3
MaxScale == 3

\* The decimal counts of the two assets.
DecimalCounts == {0, 6, 8}

NormalizeInputs ==
    [amountIn : 1..MaxAmount, amountOut : 0..MaxAmount,
     sourceDecimals : DecimalCounts, destDecimals : DecimalCounts,
     k : 1..MaxScale]

\* normalizeRate(source, destination, amountIn, {amountOut}) for the amounts
\* multiplied by k; the quote carries no fee.
NormalizeScaled(in, k) ==
    NormalizeRate([source |-> Asset(1, "USDC", in.sourceDecimals),
                   destination |-> Asset(2, "USDC", in.destDecimals)],
                  k * in.amountIn, k * in.amountOut, NoFee)

NormalizeStep ==
    /\ normResult.tag = "pending"
    /\ normResult' = [tag |-> "done",
                      base |-> NormalizeScaled(normInput, 1),
                      scaled |-> NormalizeScaled(normInput, normInput.k)]
    /\ UNCHANGED <<normInput, execVars, limiterVars, snapVars, probeVars>>

\* No normalizeRate call is under study.
NormalizeIdle ==
    /\ normInput = [amountIn |-> 1, amountOut |-> 1, sourceDecimals |-> 6,
                    destDecimals |-> 6, k |-> 1]
    /\ normResult = [tag |-> "idle"]

-----------------------------------------------------------------------------
(* findMaxLiquidity on its own (service.ts 476-536): one step of the model  *)
(* is the settling of the quote in flight, the update of the bounds and the *)
(* issue of the next quote (or the return after the last iteration).        *)

\* How one quote can settle: executeRequest returns a quote whose slippage
\* is within the threshold, or above it, or the quote fails (executeRequest
\* or calculateSlippage throws).
QuoteOutcomes == {"within", "above", "failed"}

\* Bound: the first MaxFreeQuotes quotes of a search settle in any of the
\* three ways; from then on the upstream is steady, every quote settling as
\* the one before it did.
MaxFreeQuotes == 12

\* Math.floor((minAmount + maxAmount) / 2)
TestAmountOfSum(lo, hi) == lo + hi
TestAmount(lo, hi) == (lo + hi) \div 2

\* The for loop's condition `i < 20`.
ProbeLoopOneMore(i) == i <= ProbeIterations
ProbeLoopContinues(i) == i < ProbeIterations

\* The locals after the quote for p.testAmount settled as kind (lines
\* 515-524): a quote within the threshold moves bestAmount and the floor,
\* any other outcome lowers the ceiling.
AfterQuoteRetrying(p, kind) ==
    IF kind = "within"
    THEN [p EXCEPT !.bestAmount = p.testAmount, !.minAmount = p.testAmount + 1]
    ELSE IF kind = "above" THEN [p EXCEPT !.maxAmount = p.testAmount - 1]
    ELSE p
AfterQuote(p, kind) ==
    IF kind = "within"
    THEN [p EXCEPT !.bestAmount = p.testAmount, !.minAmount = p.testAmount + 1]
    ELSE [p EXCEPT !.maxAmount = p.testAmount - 1]

ProbePending == [tag |-> "pending", value |-> Threshold(<<>>, 0)]

\* `return {maxAmountIn: maxAmountInSmallestUnits, slippageBps}`
ProbeReturn(p) ==
    [tag |-> "returned",
     value |-> Threshold(InSmallestUnits(p.bestAmount, p.route.source.decimals),
                         p.slippageBps)]

\* The quote in flight settles as kind.
QuoteSettles(kind) ==
    /\ found.tag = "pending"
    /\ probe.i < MaxFreeQuotes \/ kind = probe.settled
    /\ quoted' = Append(quoted, [amount |-> probe.testAmount,
                                 within |-> kind = "within"])
    /\ \E p \in {AfterQuote(probe, kind)} :
           IF ProbeLoopContinues(probe.i + 1)
           THEN /\ probe' = [p EXCEPT !.i = probe.i + 1,
                                      !.testAmount = TestAmount(p.minAmount, p.maxAmount),
                                      !.calls = probe.calls + 1,
                                      !.settled = kind]
                /\ found' = found
           ELSE /\ probe' = [p EXCEPT !.i = probe.i + 1, !.settled = kind]
                /\ found' = ProbeReturn(p)
    /\ UNCHANGED <<execVars, limiterVars, snapVars, normVars>>

QuoteWithin == QuoteSettles("within")
QuoteAbove == QuoteSettles("above")
QuoteFails == QuoteSettles("failed")

\* findMaxLiquidity(route, slippageBps) up to its first quote request.
ProbeStart(route, slippageBps) ==
    [route |-> route, slippageBps |-> slippageBps, i |-> 0,
     minAmount |-> MinProbeAmount, maxAmount |-> MaxProbeAmount,
     bestAmount |-> MinProbeAmount,
     testAmount |-> TestAmount(MinProbeAmount, MaxProbeAmount),
     calls |-> 1, settled |-> "none"]

\* No findMaxLiquidity call is under study.
ProbeIdle ==
    /\ probe = ProbeStart(Route(1), 50)
    /\ quoted = <<>>
    /\ found = [tag |-> "idle", value |-> Threshold(<<>>, 0)]

-----------------------------------------------------------------------------
Init ==
    /\ maxRetries \in RetryCounts
    /\ caller \in {"ping", "quote"}
    /\ script \in Scripts(maxRetries)
    /\ attempt = 0
    /\ lastError = NoError
    /\ slots = 0
    /\ requests = 0
    /\ sleeps = <<>>
    /\ authAt = -1
    /\ pc = IF LoopContinues(0, maxRetries) THEN "slot" ELSE "done"
    /\ result = IF LoopContinues(0, maxRetries) THEN Pending ELSE AfterLoop(NoError, 0)
    /\ pingExit = IF caller = "ping" THEN PingPending ELSE NotPing
    /\ LimiterIdle
    /\ SnapshotIdle
    /\ NormalizeIdle
    /\ ProbeIdle

Next == SlotGranted \/ RequestSettled \/ BackoffElapsed \/ PingSettles

Spec == Init /\ [][Next]_vars

-----------------------------------------------------------------------------
(* The limiter on its own: no executeRequest call is in progress.           *)

ExecIdle ==
    /\ maxRetries = 3
    /\ caller = "quote"
    /\ script = [k |-> 0, a |-> Response(200, NoHeader, TRUE), b |-> Response(200, NoHeader, TRUE)]
    /\ pc = "done"
    /\ attempt = 0
    /\ lastError = NoError
    /\ slots = 0
    /\ requests = 0
    /\ sleeps = <<>>
    /\ result = Pending
    /\ authAt = -1
    /\ pingExit = NotPing

InitLimiter ==
    /\ requestsPerSecond \in RequestRates
    /\ now = StartTime
    /\ lastCallTime = 0
    /\ lpc = [c \in Callers |-> "idle"]
    /\ fireAt = [c \in Callers |-> 0]
    /\ grants = <<>>
    /\ arrivals = <<>>
    /\ ExecIdle
    /\ SnapshotIdle
    /\ NormalizeIdle
    /\ ProbeIdle

NextLimiter ==
    \/ \E c \in Callers : CallWaitForSlot(c)
    \/ \E c \in Callers : TimerFires(c)
    \/ Tick

SpecLimiter == InitLimiter /\ [][NextLimiter]_vars

\* Sequential use of the limiter: waitForSlot is called only when no other
\* call of it is waiting, as in `await waitForSlot()` inside a loop.
SequentialCall(c) ==
    /\ \A d \in Callers : lpc[d] = "idle"
    /\ CallWaitForSlot(c)

NextSequential ==
    \/ \E c \in Callers : SequentialCall(c)
    \/ \E c \in Callers : TimerFires(c)
    \/ Tick

SpecSequential == InitLimiter /\ [][NextSequential]_vars

-----------------------------------------------------------------------------
(* One getSnapshot call, for every choice of parameters and of upstream.    *)

InitSnapshot ==
    /\ variant \in Variants
    /\ routes \in RouteLists
    /\ notionals \in NotionalLists
    /\ includeWindows \in WindowLists
    /\ mode \in Modes
    /\ pos = [b \in Branches |-> 0]
    /\ bstate = [b \in Branches |-> IF Length(b) = 0 THEN "fulfilled" ELSE "running"]
    /\ parts = NoParts
    /\ outcome = SnapshotPending
    /\ ExecIdle
    /\ LimiterIdle
    /\ NormalizeIdle
    /\ ProbeIdle

NextSnapshot ==
    \/ GetVolumesStep
    \/ GetRatesStep
    \/ GetLiquidityDepthStep
    \/ GetListedAssetsStep

SpecSnapshot == InitSnapshot /\ [][NextSnapshot]_vars

-----------------------------------------------------------------------------
(* normalizeRate for every pair of amounts and every factor.                *)

InitNormalize ==
    /\ normInput \in NormalizeInputs
    /\ normResult = [tag |-> "pending"]
    /\ ExecIdle
    /\ LimiterIdle
    /\ SnapshotIdle
    /\ ProbeIdle

NextNormalize == NormalizeStep

SpecNormalize == InitNormalize /\ [][NextNormalize]_vars

-----------------------------------------------------------------------------
(* One findMaxLiquidity call, for every sequence of quote outcomes.         *)

InitProbe ==
    /\ probe = ProbeStart(Route(1), 50)
    /\ quoted = <<>>
    /\ found = ProbePending
    /\ ExecIdle
    /\ LimiterIdle
    /\ SnapshotIdle
    /\ NormalizeIdle

NextProbe == QuoteWithin \/ QuoteAbove \/ QuoteFails

SpecProbe == InitProbe /\ [][NextProbe]_vars

-----------------------------------------------------------------------------
(* Progress: a call of executeRequest (Init) or of getSnapshot              *)
(* (InitSnapshot) under the assumption that whatever a call is waiting for  *)
(* (a limiter slot, the response or rejection of a request, a backoff       *)
(* timer, the answer to a branch's request) arrives in the end: a step that *)
(* stays possible is taken.  Every step changes pc, pingExit or pos.        *)

\* Bounds of the progress check: the retry budget of the executeRequest
\* call, and the number of items (routes, notionals and windows together)
\* given to getSnapshot.
MaxLiveRetries == 2
MaxLiveItems == 2

InitLive ==
    \/ Init /\ maxRetries <= MaxLiveRetries
    \/ /\ InitSnapshot
       /\ Len(routes) + Len(notionals) + Len(includeWindows) <= MaxLiveItems

NextLive == Next \/ NextSnapshot

SpecLive ==
    /\ InitLive
    /\ [][NextLive]_vars
    /\ WF_<<pc, pingExit, pos>>(NextLive)

-----------------------------------------------------------------------------
(* Properties of Spec and SpecLimiter.                                      *)

IsResponse(o, statuses) == o.kind = "response" /\ o.status \in statuses
ServerStatuses == {500, 503}
\* An attempt that fails with status 429 or >= 500.
RetryableStatus(o) == IsResponse(o, {429} \cup ServerStatuses)
\* An attempt whose response is 2xx and parses.
SuccessOutcome(o) == IsResponse(o, {200}) /\ (o.bodyOk \/ caller = "ping")
Done == pc = "done"

\* C1: whatever the upstream does to the health request, the Effect returned
\* by ping() exits as a success carrying {status: "ok"}; it never exits as a
\* failure.
C1_PingNeverFails ==
    (caller = "ping" /\ pingExit # PingPending)
        => pingExit = [tag |-> "Success", status |-> "ok"]

\* C2: any two slot grants of one RateLimiter are at least minInterval
\* apart, however the callers interleave.
C2_GrantsSpaced ==
    \A i, j \in 1..Len(grants) :
        i < j => grants[j] - grants[i] >= MinIntervalMs(requestsPerSecond)

\* C3 (as stated): a call in which some attempt is answered 401/403 makes
\* exactly one attempt in total, with no sleep, and raises a
\* PluginConfigurationError.
C3_ExactlyOneAttempt ==
    (Done /\ authAt >= 0)
        => /\ requests = 1 /\ slots = 1 /\ sleeps = <<>>
           /\ result.tag = "raised"
           /\ result.error.type = "PluginConfigurationError"

\* C3 (amended): the attempt answered 401/403 is the last one: the call is
\* over with a PluginConfigurationError, and no slot, request or sleep
\* follows that attempt; when it is attempt 0 the call made exactly one
\* attempt.
C3_AuthEndsTheCall ==
    authAt >= 0
        => /\ Done
           /\ result.tag = "raised"
           /\ result.error.type = "PluginConfigurationError"
           /\ result.error.at = authAt
           /\ requests = authAt + 1 /\ slots = authAt + 1 /\ Len(sleeps) = authAt
           /\ (IsResponse(Upstream(0), {401, 403})
                 => requests = 1 /\ slots = 1 /\ sleeps = <<>>)

C3_Witness ==
    Done /\ maxRetries = 10 /\ authAt = 2 /\ requests = 3 /\ Upstream(0).status = 503

C5_SuccessAfterRetries ==
    (Done /\ (\A i \in 0..(maxRetries - 1) : RetryableStatus(Upstream(i)))
          /\ SuccessOutcome(Upstream(maxRetries)))
        => /\ result.tag = "returned"
           /\ result.value = (IF caller = "ping" THEN "status ok" ELSE "parsed body")
           /\ result.error = NoError
           /\ requests = maxRetries + 1

C5_Witness ==
    Done /\ maxRetries = 3 /\ requests = 4 /\ result.tag = "returned"
         /\ script.k = 3 /\ script.a.status = 503

\* C6: the sleep before attempt i >= 1 lasts min(10000, 1000 * 2^(i-1)) ms,
\* that is 1000, 2000, 4000, 8000, 10000, 10000, ..., and every attempt
\* i >= 1 is preceded by exactly i sleeps.
ExpectedSleeps ==
    <<1000, 2000, 4000, 8000, 10000, 10000, 10000, 10000, 10000, 10000>>

C6_BackoffSchedule ==
    /\ \A i \in 1..Len(sleeps) :
          /\ sleeps[i] = Min(10000, 1000 * 2^(i - 1))
          /\ (i <= Len(ExpectedSleeps) => sleeps[i] = ExpectedSleeps[i])
    /\ (pc \in {"slot", "request"} => Len(sleeps) = attempt)
    /\ (pc = "backoff" => Len(sleeps) = attempt + 1)

C6_Witness == maxRetries = 10 /\ pc = "request" /\ attempt = 10 /\ Len(sleeps) = 10

C10_LastErrorRaised ==
    (Done /\ requests = maxRetries + 1 /\ result.tag = "raised")
        => LET o == Upstream(maxRetries)
               e == result.error
           IN  /\ e.at = maxRetries
               /\ e.msg # "Request failed after all retries"
               /\ o.kind = "reject" => (e.type = o.type /\ e.msg = o.msg)
               /\ o.kind = "response" => e.status = o.status
               /\ IsResponse(o, {429}) => e.msg = "Rate limited. Retry after"
               /\ IsResponse(o, {401, 403}) => e.type = "PluginConfigurationError"
               /\ IsResponse(o, {400, 404} \cup ServerStatuses) => e.msg = "HTTP"

C10_Witness ==
    Done /\ maxRetries = 3 /\ requests = 4 /\ result.tag = "raised"
         /\ script.k = 3 /\ script.a.status = 503 /\ result.error.status = 404

-----------------------------------------------------------------------------
(* Properties of SpecSnapshot.                                              *)

\* The items branch b has handled so far, and the answer each one met.
Handled(b) == 1..pos[b]
AnswerOf(b, i) == AnswerIn(mode[b], mode.failure, i)
Saw(answers) == \E b \in Branches : \E i \in Handled(b) : AnswerOf(b, i) \in answers
Exited == outcome.tag # "pending"
Delivered == outcome.tag = "Success"
Failed == outcome.tag = "Failure"

\* C11: once a request of getSnapshot (volume, quote, liquidity quote or
\* assets) has been answered 401 and no request has failed otherwise,
\* getSnapshot has failed and its error is a ConfigurationError: the 401 is
\* neither absorbed into a fallback value nor rewrapped as another error.
C11_ConfigurationErrorReachesCaller ==
    (Saw({"unauthorized"}) /\ ~Saw({"down"}))
        => (Failed /\ IsConfigurationError(outcome.status))

\* What branch b builds from its first k items when it runs on its own: it
\* depends on the parameters and on the answers to b's requests only.
RECURSIVE Alone(_, _)
Alone(b, k) ==
    IF k = 0 THEN NoParts[b] ELSE Extend(b, Alone(b, k - 1), Item(b, k))

OwnFailure(b) == pos[b] > 0 /\ ~Item(b, pos[b]).ok

\* C12: whatever the other branches meet, (a) the array a branch has built
\* is the one it builds alone from the answers to its own requests, (b) a
\* branch stops only at the end of its own items or on its own failure and
\* otherwise goes on with its next item, even after another branch or
\* getSnapshot has failed, and (c) each part of a delivered snapshot is what
\* its branch produces alone.
C12_BranchesIndependent ==
    /\ \A b \in Branches :
          /\ parts[b] = Alone(b, pos[b])
          /\ bstate[b] = IF OwnFailure(b) THEN "rejected"
                          ELSE IF pos[b] = Length(b) THEN "fulfilled"
                          ELSE "running"
          /\ bstate[b] = "running" => BranchRuns(b)
    /\ Delivered =>
          outcome.status = Snapshot([b \in Branches |-> Alone(b, Length(b))])

\* The volumes branch has thrown and getSnapshot has failed, yet the rates
\* branch has worked through all four of its items.
C12_Witness ==
    /\ bstate["volumes"] = "rejected"
    /\ Failed
    /\ bstate["rates"] = "fulfilled"
    /\ Len(parts["rates"]) = 4

\* C13: once getSnapshot has returned or failed, all four branches have
\* completed: none of them is still running, i.e. has a request pending or
\* further requests to issue.
C13_OutcomeAfterAllBranches ==
    Exited => \A b \in Branches : bstate[b] # "running"

\* Total outage: every request of every branch fails, and not with a 401.
Outage ==
    /\ mode.failure = "down"
    /\ \A b \in Branches : mode[b] = "fails"

\* The snapshot made of fallback values only: the volume estimates, the
\* estimated rates, the floor amount of the liquidity probes (every quote
\* of a probe failed) and the fallback asset list.
FallbackSnapshot ==
    [volumes |-> [i \in 1..Len(includeWindows) |->
                     VolumeEntry(includeWindows[i],
                                 EstimateVolumeForWindow(includeWindows[i]))],
     rates |-> [i \in 1..(Len(routes) * Len(notionals)) |->
                   EstimateRate(RouteOfItem(i), BigIntOf(NotionalOfItem(i)))],
     liquidity |-> [i \in 1..Len(routes) |->
                       LiquidityEntry(routes[i],
                           [t \in 1..2 |->
                               Threshold(InSmallestUnits(MinProbeAmount,
                                                         routes[i].source.decimals),
                                         ThresholdsBps[t])])],
     listedAssets |-> [assets |-> GetFallbackAssets]]

RECURSIVE LivePart(_, _)
LivePart(b, k) ==
    IF k = 0 THEN NoParts[b] ELSE Extend(b, LivePart(b, k - 1), ItemUnder(b, k, "live"))

LiveSnapshot == Snapshot([b \in Branches |-> LivePart(b, Length(b))])

\* C15: a delivered snapshot that holds a value substituted for a failed
\* request can be told from the fully live snapshot of the same call.
C15_FallbackDistinguishable ==
    (Delivered /\ Saw({"down", "unauthorized"})) => outcome.status # LiveSnapshot

\* C16: a delivered snapshot holds one rate per (route, notional) pair, in
\* the order of the request, with that route and with that notional's
\* amount as amountIn; one volume per requested window; one liquidity entry
\* per route.
C16_SnapshotShape ==
    Delivered =>
        LET snap == outcome.status
            R == Len(routes)
            N == Len(notionals)
        IN  /\ Len(snap.rates) = R * N
            /\ \A j \in 1..R : \A k \in 1..N :
                  LET q == snap.rates[(j - 1) * N + k]
                  IN  /\ q.source = routes[j].source
                      /\ q.destination = routes[j].destination
                      /\ BigIntOf(q.amountIn) = BigIntOf(notionals[k])
            /\ Len(snap.volumes) = Len(includeWindows)
            /\ \A i \in 1..Len(includeWindows) :
                  snap.volumes[i].window = includeWindows[i]
            /\ Len(snap.liquidity) = R
            /\ \A j \in 1..R : snap.liquidity[j].route = routes[j]

\* Two routes, two notionals and two windows, with estimated and live rates
\* side by side.
C16_Witness ==
    /\ Delivered
    /\ Len(routes) = 2
    /\ Len(notionals) = 2
    /\ Len(includeWindows) = 2
    /\ mode.rates = "mixed"
    /\ Len(outcome.status.rates) = 4

\* A string of decimal digits, and one that denotes a positive integer.
IsDigitString(s) == Len(s) > 0 /\ \A i \in 1..Len(s) : IsDigit(s[i])
IsPositiveAmount(s) == IsDigitString(s) /\ \E i \in 1..Len(s) : s[i] # "0"

\* Every liquidity entry has exactly the thresholds 50 and 100, in this
\* order, and each maxAmountIn satisfies ok.
ThresholdsAre(snap, ok(_)) ==
    \A j \in 1..Len(snap.liquidity) :
        LET ts == snap.liquidity[j].thresholds
        IN  /\ Len(ts) = 2
            /\ ts[1].slippageBps = 50
            /\ ts[2].slippageBps = 100
            /\ \A t \in 1..2 : ok(ts[t].maxAmountIn)

\* C17 (as stated): every liquidity entry of a delivered snapshot carries
\* exactly the thresholds 50 and 100 bps, each with a maxAmountIn that is
\* the digit string of a positive integer.
C17_ThresholdsPositive ==
    Delivered => ThresholdsAre(outcome.status, IsPositiveAmount)

\* C17 (amended): every liquidity entry of a delivered snapshot carries
\* exactly the thresholds 50 and 100 bps, each maxAmountIn a digit string;
\* in service.ts it denotes a positive integer, for probed thresholds and
\* for the estimates of getLiquidityDepth's catch block alike; in the
\* strict service it is "0" when the upstream lists no operation for the
\* route.
C17_ThresholdsWellFormed ==
    /\ Delivered => ThresholdsAre(outcome.status, IsDigitString)
    /\ (Delivered /\ variant = "resilient") =>
          ThresholdsAre(outcome.status, IsPositiveAmount)
    /\ \A j \in 1..Len(routes) : \A t \in 1..2 :
          IsPositiveAmount(EstimateLiquidityAmount(routes[j].source, ThresholdsBps[t]))
    /\ (Delivered /\ variant = "strict" /\ mode.liquidity = "empty") =>
          \A j \in 1..Len(routes) : \A t \in 1..2 :
              outcome.status.liquidity[j].thresholds[t].maxAmountIn = <<"0">>

\* service.ts under failing quotes: two routes, thresholds at the floor.
C17_Witness ==
    /\ Delivered
    /\ variant = "resilient"
    /\ mode.liquidity = "fails"
    /\ Len(outcome.status.liquidity) = 2
    /\ outcome.status.liquidity[2].thresholds[1].maxAmountIn
          = <<"1", "0", "0", "0", "0", "0", "0", "0", "0", "0">>

-----------------------------------------------------------------------------
(* Properties of SpecSequential and of ping.                                *)

\* C18: when every waitForSlot call starts after the previous grant, each
\* grant comes at least minInterval after the grant before it, lastCallTime
\* is the time of the latest grant, and the N grants so far span at least
\* (N - 1) * minInterval.
C18_SequentialSpacing ==
    LET n == Len(grants)
        minInterval == MinIntervalMs(requestsPerSecond)
    IN  /\ \A i \in 2..n : grants[i] - grants[i - 1] >= minInterval
        /\ n > 0 => lastCallTime = grants[n]
        /\ n > 0 => grants[n] - grants[1] >= (n - 1) * minInterval

\* Three grants at 10 requests per second, exactly 100 ms apart.
C18_Witness ==
    /\ requestsPerSecond = 10
    /\ Len(grants) = 3
    /\ grants[3] - grants[1] = 2 * MinIntervalMs(requestsPerSecond)

\* C19: a ping() issues at most one upstream request and sleeps no backoff,
\* whatever the outcome and whatever maxRetries.
C19_PingSingleRequest ==
    caller = "ping" => (requests <= 1 /\ sleeps = <<>>)

\* C20: no rate of a delivered snapshot has an effectiveRate that is NaN,
\* infinite or not positive, whatever the notionals (the notional "0"
\* included) and whatever the upstream answers.
C20_RatesFiniteAndPositive ==
    Delivered =>
        \A i \in 1..Len(outcome.status.rates) :
            LET rate == outcome.status.rates[i].effectiveRate
            IN  rate.class = "finite" /\ rate.num > 0 /\ rate.den > 0

-----------------------------------------------------------------------------
(* Properties of Spec: payload errors, initialization, Retry-After.         *)

\* C22: an attempt whose 2xx response cannot be parsed (parseFn throws) ends
\* the call: the parse error is raised and no slot, request or sleep follows
\* that attempt.
C22_MalformedPayloadTerminal ==
    lastError.type = "SyntaxError"
        => /\ Done
           /\ result = Raised(lastError)
           /\ requests = lastError.at + 1
           /\ Len(sleeps) = lastError.at

\* C26: whichever copy of the plugin runs it, and however the ping made
\* during initialize ends (upstream down, non-2xx status, timeout),
\* initialize succeeds and yields the service.
C26_InitializeAlwaysSucceeds ==
    (caller = "ping" /\ pingExit # PingPending)
        => \A plugin \in Plugins :
               Initialize(plugin, pingExit) = [tag |-> "Success", status |-> "service"]

\* waitForSlot delays an attempt by at most the largest interval a service
\* can be configured with (requestsPerSecond = 1).
MaxSlotWaitMs == MinIntervalMs(1)

\* C28: the pause the call makes after an attempt answered 429 (the backoff
\* sleep plus the longest wait for a slot) is at least the number of seconds
\* that response's Retry-After header gives, 60 when the header is absent.
C28_RetryAfterRespected ==
    \A i \in 1..Len(sleeps) :
        LET o == Upstream(i - 1)
            retryAfter == RetryAfterOf(o.header)
        IN  (IsResponse(o, {429}) /\ ~retryAfter.isNaN)
                => sleeps[i] + MaxSlotWaitMs >= retryAfter.val * 1000

-----------------------------------------------------------------------------
(* Properties of SpecSnapshot: liquidity order, fees, rates, the handler,   *)
(* assets and the route filter.                                             *)

\* s <= t for two amounts written as digit strings without leading zeros.
AmountLeq(s, t) ==
    \/ Len(s) < Len(t)
    \/ /\ Len(s) = Len(t)
       /\ \/ s = t
          \/ \E i \in 1..Len(s) :
                /\ \A j \in 1..(i - 1) : s[j] = t[j]
                /\ DigitVal(s[i]) < DigitVal(t[i])

\* C21: when every liquidity request is answered live (no quote fails, and
\* the quoted slippage grows with the amount), each liquidity entry of a
\* delivered snapshot reports at 100 bps a maxAmountIn that is at least the
\* one it reports at 50 bps.
C21_LiquidityMonotone ==
    (Delivered /\ mode.liquidity = "live") =>
        \A j \in 1..Len(outcome.status.liquidity) :
            LET ts == outcome.status.liquidity[j].thresholds
            IN  AmountLeq(ts[1].maxAmountIn, ts[2].maxAmountIn)

\* The greatest common divisor, and a JavaScript number in lowest terms.
RECURSIVE GCD(_, _)
GCD(a, b) == IF b = 0 THEN a ELSE GCD(b, a % b)

InLowestTerms(x) ==
    IF x.class # "finite" \/ x.num = 0 THEN [x EXCEPT !.den = IF x.class = "finite" THEN 1 ELSE 0]
    ELSE [x EXCEPT !.num = x.num \div GCD(x.num, x.den),
                   !.den = x.den \div GCD(x.num, x.den)]

SameNumber(x, y) == InLowestTerms(x) = InLowestTerms(y)

\* The rates of a delivered snapshot that were built from a live answer to
\* a non-zero notional.
LiveRates ==
    {i \in 1..Len(outcome.status.rates) :
        AnswerOf("rates", i) = "live" /\ BigIntOf(NotionalOfItem(i)) # 0}

\* C23: in service.ts, a rate built from a live quote that carries no fee
\* field has totalFeesUsd equal to the estimate amountIn / 10^sourceDecimals
\* * 5 / 10000, which is not zero; the rates substituted for failed quotes
\* carry the same estimate.
C23_MissingFeeIsEstimated ==
    (Delivered /\ variant = "resilient") =>
        \A i \in 1..Len(outcome.status.rates) :
            LET q == outcome.status.rates[i]
                n == BigIntOf(NotionalOfItem(i))
                estimate == EstimateFeesUsd(n, RouteOfItem(i).source.decimals)
            IN  /\ (i \in LiveRates /\ QuotedFee(RouteOfItem(i)) = NoFee)
                      => (q.totalFeesUsd = estimate /\ q.totalFeesUsd.num > 0)
                /\ AnswerOf("rates", i) # "live" => q.totalFeesUsd = estimate

\* C24: every rate of a delivered snapshot that was built from a live answer
\* has effectiveRate = (amountOut / 10^destDecimals) / (amountIn /
\* 10^sourceDecimals), where amountIn is the requested notional and
\* amountOut the amount the entry reports.
C24_EffectiveRateInvariant ==
    Delivered =>
        \A i \in LiveRates :
            LET q == outcome.status.rates[i]
                r == RouteOfItem(i)
            IN  /\ BigIntOf(q.amountIn) = BigIntOf(NotionalOfItem(i))
                /\ SameNumber(q.effectiveRate,
                              Divide(BigIntOf(q.amountOut)
                                        * Multiplier(r.source.decimals, r.destination.decimals),
                                     BigIntOf(q.amountIn)
                                        * Multiplier(r.destination.decimals, r.source.decimals)))

\* C27: the getSnapshot handler reports UNAUTHORIZED when the upstream has
\* answered a request of the snapshot 401 (and no request failed
\* otherwise), and SERVICE_UNAVAILABLE for the failures that are neither
\* a 401/403 nor a rate limit; a 401 is never reported as
\* SERVICE_UNAVAILABLE.
C27_HandlerMapsErrors ==
    LET reply == GetSnapshotHandler(outcome)
    IN  /\ (Exited /\ Saw({"unauthorized"}) /\ ~Saw({"down"}))
              => reply.code = "UNAUTHORIZED"
        /\ (Exited /\ Saw({"unauthorized"})) => reply.code # "SERVICE_UNAVAILABLE"
        /\ (Failed /\ ~Saw({"unauthorized"})) => reply.code = "SERVICE_UNAVAILABLE"

\* The first asset of a list that has a given key.
FirstWithKey(assets, key) ==
    assets[CHOOSE i \in 1..Len(assets) :
               /\ AssetKey(assets[i]) = key
               /\ \A j \in 1..(i - 1) : AssetKey(assets[j]) # key]

\* C29: the assets of a delivered snapshot have pairwise distinct
\* (chainId, assetId) keys, and when the upstream answered the assets
\* request, each listed asset is the first the upstream data hold for its
\* key.
C29_AssetsUniqueFirstSeen ==
    Delivered =>
        LET assets == outcome.status.listedAssets.assets
        IN  /\ \A i, j \in 1..Len(assets) :
                  i # j => AssetKey(assets[i]) # AssetKey(assets[j])
            /\ AnswerOf("listedAssets", 1) = "live" =>
                  \A i \in 1..Len(assets) :
                      assets[i].symbol
                          = FirstWithKey(UpstreamAssets, AssetKey(assets[i])).symbol

\* An operation that goes from the route's source chain to its destination
\* chain.
MatchesBothChains(op, route) ==
    op.emitterChain = route.source.chainId /\ op.toChain = route.destination.chainId

\* C30: in the strict service, the liquidity thresholds of a route are read
\* off the operations whose source chain and destination chain both equal
\* the route's, and a rate is produced for a route only when some operation
\* matches it on both chains.
C30_RouteFilterIsConjunction ==
    (Delivered /\ variant = "strict") =>
        /\ \A j \in 1..Len(routes) :
              outcome.status.liquidity[j].thresholds
                  = PercentileThresholds(RouteAmounts(
                        Filter(Operations(AnswerOf("liquidity", j)), routes[j],
                               MatchesBothChains)))
        /\ \A i \in 1..Len(outcome.status.rates) :
              Filter(Operations(AnswerOf("rates", i)), RouteOfItem(i),
                     MatchesBothChains) # <<>>

-----------------------------------------------------------------------------
(* Properties of SpecNormalize.                                             *)

\* C25: for amountIn > 0, amountOut >= 0, non-negative decimal counts and a
\* positive integer k, normalizeRate yields a rate for (amountIn, amountOut)
\* and for (k * amountIn, k * amountOut), the two rates are the same number,
\* and that number is finite and positive.
C25_ScaleInvariantPositive ==
    normResult.tag = "done" =>
        /\ normResult.base.ok
        /\ normResult.scaled.ok
        /\ SameNumber(normResult.base.entry.effectiveRate,
                      normResult.scaled.entry.effectiveRate)
        /\ normResult.base.entry.effectiveRate.class = "finite"
        /\ normResult.base.entry.effectiveRate.num > 0
        /\ normResult.base.entry.effectiveRate.den > 0

-----------------------------------------------------------------------------
(* Properties of the limiter under concurrent callers (SpecLimiter).        *)

\* C33: slots are granted in the order in which waitForSlot was called: the
\* call that is granted is always the earliest of the calls still waiting,
\* for every interleaving of calls and grants.
C33_GrantsInArrivalOrder ==
    [][Len(arrivals') < Len(arrivals) => arrivals' = Tail(arrivals)]_vars

-----------------------------------------------------------------------------
(* Properties of the requests a getSnapshot call issues (SpecSnapshot).     *)

\* C31: every /operations request the strict variant has issued for a
\* branch asks for a pageSize of at most 100.
C31_PageSizeAtMost100 ==
    variant = "strict" =>
        \A b \in Branches : \A i \in 1..pos[b] :
            PageSize(b, IF b = "volumes" THEN includeWindows[i] ELSE "none")
                <= MaxPageSize

\* C32: every upstream request a branch has issued was preceded by a
\* waitForSlot grant of its own.
C32_EveryRequestBehindASlot ==
    \A b \in Branches : pos[b] > 0 => SlotsPerRequest(variant, b) = 1

\* The quote requests of the two searches of the j-th route.
ProbedBy(slippageBps, j) ==
    ProbedAmounts[slippageBps, AnswerOf("liquidity", j),
                  ExecuteRequest(OutcomeOf(AnswerOf("liquidity", j)),
                                 maxRetries).tag = "returned"]

\* C37: while one route is probed, its 50 bps search and its 100 bps search
\* never ask the upstream for a quote of the same amount, and no search asks
\* twice for one amount.
C37_NoAmountQuotedTwice ==
    variant = "resilient" =>
        \A j \in 1..pos["liquidity"] :
            /\ \A k \in 1..ProbeIterations, l \in 1..ProbeIterations :
                   ProbedBy(50, j)[k] # ProbedBy(100, j)[l]
            /\ \A t \in {50, 100} :
                   \A k \in 1..ProbeIterations, l \in 1..ProbeIterations :
                       k # l => ProbedBy(t, j)[k] # ProbedBy(t, j)[l]

-----------------------------------------------------------------------------
(* Properties of findMaxLiquidity (SpecProbe).                              *)

ProbeReturned == found.tag = "returned"
QuotedAmounts == {quoted[k].amount : k \in 1..Len(quoted)}
WithinAmounts == {quoted[k].amount : k \in {l \in 1..Len(quoted) : quoted[l].within}}

\* C34: findMaxLiquidity makes exactly 20 executeRequest calls, whatever
\* their outcomes: a call is issued only when the one before it has
\* settled, the function has not returned while fewer than 20 quotes have
\* settled, and it has returned once the 20th has.
C34_TwentySequentialProbes ==
    /\ probe.calls - Len(quoted) \in {0, 1}
    /\ Len(quoted) <= ProbeIterations
    /\ ProbeReturned <=> Len(quoted) = ProbeIterations
    /\ ProbeReturned => probe.calls = ProbeIterations
    /\ ~ProbeReturned => probe.calls = Len(quoted) + 1

\* A search that met all three outcomes and returned.
C34_Witness ==
    /\ ProbeReturned
    /\ probe.settled = "failed"
    /\ probe.bestAmount > MinProbeAmount
    /\ probe.maxAmount < MaxProbeAmount - 1

\* C35: the amount findMaxLiquidity returns is, in smallest units of the
\* source asset, an amount whose quote was obtained and found within the
\* threshold, and the largest such amount of the search.
C35_ReturnsLargestQuotedWithin ==
    ProbeReturned =>
        \E best \in WithinAmounts :
            /\ found.value.maxAmountIn
                   = InSmallestUnits(best, probe.route.source.decimals)
            /\ \A other \in WithinAmounts : other <= best

\* C36: a quote that fails lowers the ceiling to testAmount - 1 and leaves
\* the floor and the best amount as they were; no amount is quoted twice in
\* one search.
C36_FailureLowersCeiling ==
    /\ [](/\ \A k, l \in 1..Len(quoted) : k # l => quoted[k].amount # quoted[l].amount
          /\ ~ProbeReturned => probe.testAmount \notin QuotedAmounts)
    /\ [][(quoted' # quoted /\ probe'.settled = "failed") =>
             /\ probe'.maxAmount = probe.testAmount - 1
             /\ probe'.minAmount = probe.minAmount
             /\ probe'.bestAmount = probe.bestAmount]_vars

\* A failed quote after a quote within the threshold, with a further quote
\* requested.
C36_Witness ==
    /\ probe.settled = "failed"
    /\ ~ProbeReturned
    /\ probe.bestAmount > MinProbeAmount
    /\ probe.maxAmount = quoted[Len(quoted)].amount - 1
    /\ probe.testAmount < quoted[Len(quoted)].amount

\* C39: throughout a search with the default bounds, bestAmount and every
\* amount quoted lie in [1000, 10,000,000], the floor never decreases, the
\* ceiling never increases, and floor <= ceiling + 1.
C39_ProbeBounds ==
    /\ [](/\ probe.bestAmount \in MinProbeAmount..MaxProbeAmount
          /\ probe.testAmount \in MinProbeAmount..MaxProbeAmount
          /\ \A amount \in QuotedAmounts : amount \in MinProbeAmount..MaxProbeAmount
          /\ probe.minAmount <= probe.maxAmount + 1)
    /\ [][/\ probe'.minAmount >= probe.minAmount
          /\ probe'.maxAmount <= probe.maxAmount]_vars

\* A finished search that moved both bounds.
C39_Witness ==
    /\ ProbeReturned
    /\ probe.minAmount > MinProbeAmount
    /\ probe.maxAmount < MaxProbeAmount
    /\ probe.bestAmount = probe.minAmount - 1

-----------------------------------------------------------------------------
(* Progress (SpecLive).                                                     *)

\* C40: when every request settles and every timer fires, an executeRequest
\* call in progress ends by returning or throwing, having slept only between
\* attempts (fewer sleeps than requests: none after the last attempt), and a
\* getSnapshot call whose branches are running ends with a snapshot or an
\* error.
C40_CallsComplete ==
    [](/\ (pc # "done") => <>(/\ pc = "done"
                             /\ result.tag # "pending"
                             /\ Len(sleeps) < requests)
       /\ (\E b \in Branches : bstate[b] = "running") => <>Exited)

\* A call that used every attempt, slept before each retry and then threw.
C40_Witness ==
    /\ pc = "done"
    /\ result.tag = "raised"
    /\ maxRetries >= 2
    /\ requests = maxRetries + 1
    /\ sleeps = [a \in 1..maxRetries |-> BackoffDelay(a - 1)]

=============================================================================
